---- MODULE Spec2Model ----
(***************************************************************************)
(* Model of git-workflow-automation.py (GitWorkflowAutomator and main).    *)
(* One run of the tool: the arguments are parsed, the automator is built,   *)
(* main dispatches to one operation, and the operation issues its git       *)
(* commands one by one.  Every git command either succeeds, fails           *)
(* (CalledProcessError, turned into sys.exit(1) by _run_git_command) or is  *)
(* interrupted by the user (KeyboardInterrupt).  Strings the code inspects  *)
(* (branch names, versions, command output) are sequences of characters.    *)
(***************************************************************************)
EXTENDS Integers, Sequences, FiniteSets, TLC

VARIABLES args, env, current_branch, head, local, remote, files,
          pc, trace, prCalls, out, exitStatus, report, merged_branches, idx

vars == <<args, env, current_branch, head, local, remote, files,
          pc, trace, prCalls, out, exitStatus, report, merged_branches, idx>>

----------------------------------------------------------------------------
(* Bounds of the model *)

MaxVerLen == 6
MaxUnpushed == 2
MaxFiles == 2

----------------------------------------------------------------------------
(* Strings *)

main == <<"m", "a", "i", "n">>
dev == <<"d", "e", "v">>
maintenance == <<"m", "a", "i", "n", "t">>
featA == <<"f", "e", "a", "t", "u", "r", "e", "/", "a">>
hotB == <<"h", "o", "t", "f", "i", "x", "/", "b">>
None == <<>>

Whitespace == {" ", "\n", "\t"}
Digits == {"0", "1", "2", "3", "4", "5", "6", "7", "8", "9"}

RECURSIVE LStrip(_)
LStrip(s) == IF s # <<>> /\ Head(s) \in Whitespace THEN LStrip(Tail(s)) ELSE s

RECURSIVE RStrip(_)
RStrip(s) ==
    IF s # <<>> /\ s[Len(s)] \in Whitespace
    THEN RStrip(SubSeq(s, 1, Len(s) - 1)) ELSE s

Strip(s) == RStrip(LStrip(s))

StartsWith(s, p) == Len(s) >= Len(p) /\ SubSeq(s, 1, Len(p)) = p

Contains(s, p) ==
    \E i \in 1..(Len(s) - Len(p) + 1) : SubSeq(s, i, i + Len(p) - 1) = p

RECURSIVE SplitOn(_, _)
SplitOn(s, c) ==
    IF \A i \in 1..Len(s) : s[i] # c
    THEN <<s>>
    ELSE LET i == CHOOSE k \in 1..Len(s) :
                      s[k] = c /\ \A j \in 1..(k - 1) : s[j] # c
         IN  <<SubSeq(s, 1, i - 1)>> \o SplitOn(SubSeq(s, i + 1, Len(s)), c)

Truthy(s) == s # <<>>

AllDigits(s) == s # <<>> /\ \A i \in 1..Len(s) : s[i] \in Digits

(* re.match(r'^\d+\.\d+\.\d+$', version): '$' matches at the end of the      *)
(* string and also just before a newline that ends the string.              *)
VersionMatches(v) ==
    \E e \in {Len(v)} \cup
             (IF v # <<>> /\ v[Len(v)] = "\n" THEN {Len(v) - 1} ELSE {}) :
      \E i, j \in 1..e :
         /\ i < j
         /\ v[i] = "."
         /\ v[j] = "."
         /\ AllDigits(SubSeq(v, 1, i - 1))
         /\ AllDigits(SubSeq(v, i + 1, j - 1))
         /\ AllDigits(SubSeq(v, j + 1, e))

FeatureBranchNameWrong(name) == <<"f", "e", "a", "t", "u", "r", "e", "-">> \o name

FeatureBranchName(name) == <<"f", "e", "a", "t", "u", "r", "e", "/">> \o name

HotfixBranchName(name) == <<"h", "o", "t", "f", "i", "x", "/">> \o name

ReleaseBranchName(version) ==
    <<"r", "e", "l", "e", "a", "s", "e", "/">> \o version

PullRequestTitle(title) ==
    <<"F", "e", "a", "t", "u", "r", "e", ":", " ">> \o title

----------------------------------------------------------------------------
(* The version-control client *)

ValidRefName(b) == b # <<>> /\ \A i \in 1..Len(b) : b[i] \notin Whitespace

TreeChanged == env.dirty \/ files # env.files0

GitCanSucceed(op, arg) ==
    CASE op = "checkout"    -> arg \in local
      [] op = "pull"        -> arg \in remote
      [] op = "checkout-b"  -> arg \notin local /\ ValidRefName(arg)
      [] op = "push-u"      -> arg \in local
      [] op = "push"        -> arg \in local
      [] op = "branch-d"    -> arg \in local /\ arg # head
      [] op = "push-delete" -> arg \in remote
      [] op = "rev-parse"   -> arg \in remote
      [] op = "commit"      -> TreeChanged
      [] op = "branch-merged" -> arg \in local
      [] OTHER              -> TRUE

(* Any command can fail or be interrupted; it can succeed only when the     *)
(* repository allows it.  'rev-parse origin/<branch>' is a local lookup of  *)
(* the remote-tracking ref: it fails exactly when the ref is absent.        *)
Outcomes(op, arg) ==
    {"int"}
    \cup (IF GitCanSucceed(op, arg) THEN {"ok"} ELSE {})
    \cup (IF op = "rev-parse" /\ GitCanSucceed(op, arg) THEN {} ELSE {"fail"})

GitEffect(op, arg, res) ==
    IF res # "ok"
    THEN UNCHANGED <<head, local, remote>>
    ELSE CASE op \in {"checkout"} ->
                head' = arg /\ UNCHANGED <<local, remote>>
           [] op = "checkout-b" ->
                head' = arg /\ local' = local \cup {arg} /\ UNCHANGED remote
           [] op \in {"push-u", "push"} ->
                remote' = remote \cup {arg} /\ UNCHANGED <<head, local>>
           [] op = "branch-d" ->
                local' = local \ {arg} /\ UNCHANGED <<head, remote>>
           [] op = "push-delete" ->
                remote' = remote \ {arg} /\ UNCHANGED <<head, local>>
           [] OTHER -> UNCHANGED <<head, local, remote>>

(* _run_git_command: what the call raises for each outcome of the command. *)
RunGitCommandNoExit(res) ==
    CASE res = "ok"   -> "none"
      [] res = "fail" -> "none"
      [] res = "int"  -> "KeyboardInterrupt"

RunGitCommand(res) ==
    CASE res = "ok"   -> "none"
      [] res = "fail" -> "SystemExit"
      [] res = "int"  -> "KeyboardInterrupt"

GitPrints(res) == IF res = "fail" THEN <<"git_command_failed">> ELSE <<>>

(* A bare 'except:' catches every BaseException. *)
BareExceptCatches(exc) == exc # "none"

(* 'except Exception' catches neither SystemExit nor KeyboardInterrupt. *)
ExceptExceptionCatches(exc) == exc = "Exception"

(* main: the try block around the dispatch, and the process exit status. *)
MainPrints(exc) ==
    CASE exc = "KeyboardInterrupt" -> <<"cancelled">>
      [] exc = "Exception"         -> <<"error">>
      [] OTHER                     -> <<>>

MainExit(exc) ==
    CASE exc = "none"              -> "zero"
      [] exc = "KeyboardInterrupt" -> "zero"
      [] OTHER                     -> "nonzero"

Terminate(exc, prints) ==
    /\ pc' = "exited"
    /\ out' = out \o prints \o MainPrints(exc)
    /\ exitStatus' = MainExit(exc)

Continue(to, prints) ==
    IF to = "exited"
    THEN Terminate("none", prints)
    ELSE pc' = to /\ out' = out \o prints /\ UNCHANGED exitStatus

Entry(op, arg, res) == [op |-> op, arg |-> arg, res |-> res]

(* A git command outside any try block of the operation. *)
Fatal(op, arg, to, okPrints) ==
    \E res \in Outcomes(op, arg) :
       /\ trace' = Append(trace, Entry(op, arg, res))
       /\ GitEffect(op, arg, res)
       /\ IF RunGitCommand(res) = "none"
          THEN Continue(to, GitPrints(res) \o okPrints)
          ELSE Terminate(RunGitCommand(res), GitPrints(res))

----------------------------------------------------------------------------
(* create_feature_branch *)

CreateFeatureCheckout ==
    /\ pc = "cf_checkout"
    /\ Fatal("checkout", args.base, "cf_pull", <<>>)
    /\ UNCHANGED <<args, env, current_branch, files, prCalls, report,
                   merged_branches, idx>>

CreateFeaturePull ==
    /\ pc = "cf_pull"
    /\ Fatal("pull", args.base, "cf_create", <<>>)
    /\ UNCHANGED <<args, env, current_branch, files, prCalls, report,
                   merged_branches, idx>>

CreateFeatureCreate ==
    /\ pc = "cf_create"
    /\ Fatal("checkout-b", FeatureBranchName(args.name), "cf_push", <<>>)
    /\ UNCHANGED <<args, env, current_branch, files, prCalls, report,
                   merged_branches, idx>>

CreateFeaturePush ==
    /\ pc = "cf_push"
    /\ Fatal("push-u", FeatureBranchName(args.name), "exited",
             <<"feature_branch_created">>)
    /\ UNCHANGED <<args, env, current_branch, files, prCalls, report,
                   merged_branches, idx>>

(* create_hotfix_branch *)

CreateHotfixCheckout ==
    /\ pc = "ch_checkout"
    /\ Fatal("checkout", args.base, "ch_pull", <<>>)
    /\ UNCHANGED <<args, env, current_branch, files, prCalls, report,
                   merged_branches, idx>>

CreateHotfixPull ==
    /\ pc = "ch_pull"
    /\ Fatal("pull", args.base, "ch_create", <<>>)
    /\ UNCHANGED <<args, env, current_branch, files, prCalls, report,
                   merged_branches, idx>>

CreateHotfixCreate ==
    /\ pc = "ch_create"
    /\ Fatal("checkout-b", HotfixBranchName(args.name), "ch_push", <<>>)
    /\ UNCHANGED <<args, env, current_branch, files, prCalls, report,
                   merged_branches, idx>>

CreateHotfixPush ==
    /\ pc = "ch_push"
    /\ Fatal("push-u", HotfixBranchName(args.name), "exited",
             <<"hotfix_branch_created">>)
    /\ UNCHANGED <<args, env, current_branch, files, prCalls, report,
                   merged_branches, idx>>

----------------------------------------------------------------------------
(* finish_feature and _create_pull_request *)

ShouldCreatePullRequestAlways(repository_name) == TRUE

ShouldCreatePullRequest(repository_name) == Truthy(repository_name)

FinishFeatureCheckout ==
    /\ pc = "ff_checkout"
    /\ Fatal("checkout", FeatureBranchName(args.name), "ff_push", <<>>)
    /\ UNCHANGED <<args, env, current_branch, files, prCalls, report,
                   merged_branches, idx>>

FinishFeaturePush ==
    /\ pc = "ff_push"
    /\ IF ShouldCreatePullRequest(args.repository)
       THEN Fatal("push", FeatureBranchName(args.name), "ff_pr", <<>>)
       ELSE Fatal("push", FeatureBranchName(args.name), "exited",
                  <<"create_pull_request_manually">>)
    /\ UNCHANGED <<args, env, current_branch, files, prCalls, report,
                   merged_branches, idx>>

PullRequest(source_branch, target_branch, title) ==
    [title |-> PullRequestTitle(title),
     description |-> title,
     repositoryName |-> args.repository,
     sourceReference |-> source_branch,
     destinationReference |-> target_branch]

CreatePullRequest ==
    /\ pc = "ff_pr"
    /\ \E res \in {"ok", "exception", "int"} :
          LET exc == CASE res = "ok"        -> "none"
                       [] res = "exception" -> "Exception"
                       [] res = "int"       -> "KeyboardInterrupt"
          IN  /\ trace' = Append(trace,
                     Entry("create_pull_request",
                           FeatureBranchName(args.name), res))
              /\ prCalls' = Append(prCalls,
                     PullRequest(FeatureBranchName(args.name), args.target,
                                 args.name))
              /\ IF exc = "none"
                 THEN Terminate("none", <<"pull_request_created">>)
                 ELSE IF ExceptExceptionCatches(exc)
                 THEN Terminate("none", <<"pull_request_failed">>)
                 ELSE Terminate(exc, <<>>)
    /\ UNCHANGED <<args, env, current_branch, head, local, remote, files,
                   report, merged_branches, idx>>

----------------------------------------------------------------------------
(* create_release_branch and _update_package_json_version *)

VersionFiles == {"version.txt", "VERSION", "package.json"}

UpdatePackageJsonVersion(data, version) ==
    IF data.valid THEN [data EXCEPT !.version = version] ELSE data

UpdateVersionFiles(fs, version) ==
    [f \in DOMAIN fs |->
        IF f = "package.json"
        THEN UpdatePackageJsonVersion(fs[f], version)
        ELSE version \o <<"\n">>]

VersionFilePrints(fs) ==
    IF "package.json" \in DOMAIN fs /\ ~fs["package.json"].valid
    THEN <<"could_not_update_package_json">> ELSE <<>>

ReleaseValidate ==
    /\ pc = "cr_validate"
    /\ IF ~VersionMatches(args.version)
       THEN Terminate("none", <<"version_format_error">>)
       ELSE Continue("cr_checkout", <<>>)
    /\ UNCHANGED <<args, env, current_branch, head, local, remote, files,
                   trace, prCalls, report, merged_branches, idx>>

ReleaseCheckout ==
    /\ pc = "cr_checkout"
    /\ Fatal("checkout", args.base, "cr_pull", <<>>)
    /\ UNCHANGED <<args, env, current_branch, files, prCalls, report,
                   merged_branches, idx>>

ReleasePull ==
    /\ pc = "cr_pull"
    /\ Fatal("pull", args.base, "cr_create", <<>>)
    /\ UNCHANGED <<args, env, current_branch, files, prCalls, report,
                   merged_branches, idx>>

ReleaseCreate ==
    /\ pc = "cr_create"
    /\ Fatal("checkout-b", ReleaseBranchName(args.version), "cr_add",
             VersionFilePrints(files))
    /\ files' = IF pc' = "cr_add"
                THEN UpdateVersionFiles(files, args.version) ELSE files
    /\ UNCHANGED <<args, env, current_branch, prCalls, report,
                   merged_branches, idx>>

ReleaseAdd ==
    /\ pc = "cr_add"
    /\ Fatal("add", None, "cr_commit", <<>>)
    /\ UNCHANGED <<args, env, current_branch, files, prCalls, report,
                   merged_branches, idx>>

ReleaseCommit ==
    /\ pc = "cr_commit"
    /\ Fatal("commit", args.version, "cr_push", <<>>)
    /\ UNCHANGED <<args, env, current_branch, files, prCalls, report,
                   merged_branches, idx>>

ReleasePush ==
    /\ pc = "cr_push"
    /\ Fatal("push-u", ReleaseBranchName(args.version), "exited",
             <<"release_branch_created">>)
    /\ UNCHANGED <<args, env, current_branch, files, prCalls, report,
                   merged_branches, idx>>

----------------------------------------------------------------------------
(* clean_merged_branches *)

BranchOrder == <<featA, hotB, main, maintenance>>

(* stdout of 'git branch --merged main', split on newlines: one line per    *)
(* merged branch, the checked-out one marked with '*', then the empty piece *)
(* after the last newline.                                                  *)
BranchMergedLines ==
    LET listed == SelectSeq(BranchOrder, LAMBDA b : b \in env.merged)
    IN  [i \in 1..Len(listed) |->
            (IF listed[i] = head THEN <<"*", " ">> ELSE <<" ", " ">>)
                \o listed[i]]
        \o << <<>> >>

KeepBranchLine(branch) ==
    /\ Strip(branch) # <<>>
    /\ ~StartsWith(Strip(branch), <<"*">>)
    /\ ~Contains(branch, main)

MergedBranches(lines) ==
    LET kept == SelectSeq(lines, KeepBranchLine)
    IN  [i \in 1..Len(kept) |-> Strip(kept[i])]

DryRunInverted(a) == a.no_dry_run

DryRun(a) == ~a.no_dry_run

CleanList ==
    /\ pc = "cl_list"
    /\ \E res \in Outcomes("branch-merged", main) :
          LET found == MergedBranches(BranchMergedLines)
          IN  /\ trace' = Append(trace, Entry("branch-merged", main, res))
              /\ IF RunGitCommand(res) # "none"
                 THEN /\ Terminate(RunGitCommand(res), GitPrints(res))
                      /\ UNCHANGED <<merged_branches, idx>>
                 ELSE /\ merged_branches' = found
                      /\ idx' = 1
                      /\ IF found = <<>>
                         THEN Terminate("none", <<"no_merged_branches">>)
                         ELSE IF DryRun(args)
                         THEN Terminate("none", <<"found", "dry_run">>)
                         ELSE Continue("cl_local", <<"found">>)
    /\ UNCHANGED <<args, env, current_branch, head, local, remote, files,
                   prCalls, report>>

CleanLocal ==
    /\ pc = "cl_local"
    /\ \E res \in Outcomes("branch-d", merged_branches[idx]) :
          /\ trace' = Append(trace,
                             Entry("branch-d", merged_branches[idx], res))
          /\ GitEffect("branch-d", merged_branches[idx], res)
          /\ out' = out \o GitPrints(res) \o
                    (IF BareExceptCatches(RunGitCommand(res))
                     THEN <<"could_not_delete_local">>
                     ELSE <<"deleted_local">>)
    /\ IF idx < Len(merged_branches)
       THEN idx' = idx + 1 /\ pc' = pc
       ELSE idx' = 1 /\ pc' = "cl_remote"
    /\ UNCHANGED <<args, env, current_branch, files, prCalls, exitStatus,
                   report, merged_branches>>

CleanRemote ==
    /\ pc = "cl_remote"
    /\ \E res \in Outcomes("push-delete", merged_branches[idx]) :
          /\ trace' = Append(trace,
                             Entry("push-delete", merged_branches[idx], res))
          /\ GitEffect("push-delete", merged_branches[idx], res)
          /\ LET prints == GitPrints(res) \o
                           (IF BareExceptCatches(RunGitCommand(res))
                            THEN <<"could_not_delete_remote">>
                            ELSE <<"deleted_remote">>)
             IN  IF idx < Len(merged_branches)
                 THEN /\ idx' = idx + 1
                      /\ Continue(pc, prints)
                 ELSE /\ idx' = idx
                      /\ Terminate("none", prints)
    /\ UNCHANGED <<args, env, current_branch, files, prCalls, report,
                   merged_branches>>

----------------------------------------------------------------------------
(* repository_health_check *)

LargeFileThreshold == 10 * 1024 * 1024

NewReport ==
    [status |-> "healthy", issues |-> <<>>, recommendations |-> <<>>,
     metrics |-> <<>>]

(* stdout of 'git status --porcelain' *)
StatusOutput == IF env.dirty THEN <<" ", "M", " ", "f", "\n">> ELSE <<>>

(* stdout of 'git log origin/main..HEAD --oneline': one line per commit *)
RECURSIVE LogLines(_)
LogLines(n) == IF n = 0 THEN <<>> ELSE <<"c", "\n">> \o LogLines(n - 1)

LogOutput == LogLines(env.unpushed)

UnpushedCommits(stdout) ==
    IF Strip(stdout) # <<>> THEN Len(SplitOn(Strip(stdout), "\n")) ELSE 0

(* stdout of 'git ls-files -s', split on newlines and then on the tab: per  *)
(* tracked file the fields before the tab (mode, object name, stage) and    *)
(* the path after it.                                                       *)
LsFilesLines ==
    [i \in 1..Len(env.tracked) |->
        [fields |-> <<"100644", "object", "0">>,
         path   |-> env.tracked[i].path]]

(* size = int(parts[0].split()[3]) raises IndexError on fewer than 4 fields *)
LargeFilesRaises(lines) == \E i \in 1..Len(lines) : Len(lines[i].fields) < 4

LargeFiles(lines) ==
    LET big == SelectSeq(lines, LAMBDA l : l.fields[4] > LargeFileThreshold)
    IN  [i \in 1..Len(big) |-> <<big[i].path, big[i].fields[4]>>]

HealthStatus ==
    /\ pc = "h_status"
    /\ Fatal("status", None, "h_log", <<>>)
    /\ report' = IF pc' = "h_log" /\ Strip(StatusOutput) # <<>>
                 THEN [report EXCEPT
                         !.issues = Append(@, "uncommitted_changes"),
                         !.status = "warning"]
                 ELSE report
    /\ UNCHANGED <<args, env, current_branch, files, prCalls,
                   merged_branches, idx>>

HealthUnpushed ==
    /\ pc = "h_log"
    /\ \E res \in Outcomes("log", None) :
          LET unpushed_commits == UnpushedCommits(LogOutput)
          IN  /\ trace' = Append(trace, Entry("log", None, res))
              /\ out' = out \o GitPrints(res)
              /\ report' =
                   IF BareExceptCatches(RunGitCommand(res))
                   THEN report
                   ELSE IF unpushed_commits > 0
                   THEN [report EXCEPT
                           !.metrics = @ @@
                               ("unpushed_commits" :> unpushed_commits),
                           !.issues = Append(@, "unpushed_commits"),
                           !.status = "warning"]
                   ELSE [report EXCEPT
                           !.metrics = @ @@
                               ("unpushed_commits" :> unpushed_commits)]
    /\ pc' = "h_show"
    /\ UNCHANGED <<args, env, current_branch, head, local, remote, files,
                   prCalls, exitStatus, merged_branches, idx>>

HealthBranchAge ==
    /\ pc = "h_show"
    /\ \E res \in Outcomes("show", None) :
          /\ trace' = Append(trace, Entry("show", None, res))
          /\ out' = out \o GitPrints(res)
          /\ report' =
               IF BareExceptCatches(RunGitCommand(res))
               THEN report
               ELSE IF env.days > 30
               THEN [report EXCEPT
                       !.metrics = @ @@
                           ("days_since_last_commit" :> env.days),
                       !.recommendations =
                           Append(@, "more_frequent_commits")]
               ELSE [report EXCEPT
                       !.metrics = @ @@
                           ("days_since_last_commit" :> env.days)]
    /\ pc' = "h_ls"
    /\ UNCHANGED <<args, env, current_branch, head, local, remote, files,
                   prCalls, exitStatus, merged_branches, idx>>

HealthLargeFiles ==
    /\ pc = "h_ls"
    /\ \E res \in Outcomes("ls-files", None) :
          /\ trace' = Append(trace, Entry("ls-files", None, res))
          /\ report' =
               IF \/ BareExceptCatches(RunGitCommand(res))
                  \/ LargeFilesRaises(LsFilesLines)
                  \/ LargeFiles(LsFilesLines) = <<>>
               THEN report
               ELSE [report EXCEPT
                       !.issues = Append(@, "large_files"),
                       !.recommendations = Append(@, "use_git_lfs"),
                       !.metrics = @ @@
                           ("large_files" :> LargeFiles(LsFilesLines))]
          /\ Terminate("none", GitPrints(res) \o <<"report">>)
    /\ UNCHANGED <<args, env, current_branch, head, local, remote, files,
                   prCalls, merged_branches, idx>>

----------------------------------------------------------------------------
(* sync_with_remote *)

SyncBranch == IF ~Truthy(args.branch) THEN current_branch ELSE args.branch

SyncFetch ==
    /\ pc = "sy_fetch"
    /\ Fatal("fetch", None, "sy_revparse", <<>>)
    /\ UNCHANGED <<args, env, current_branch, files, prCalls, report,
                   merged_branches, idx>>

SyncRevParse ==
    /\ pc = "sy_revparse"
    /\ \E res \in Outcomes("rev-parse", SyncBranch) :
          /\ trace' = Append(trace, Entry("rev-parse", SyncBranch, res))
          /\ IF BareExceptCatches(RunGitCommand(res))
             THEN Continue("sy_push",
                           GitPrints(res) \o <<"remote_branch_missing">>)
             ELSE Continue("sy_pull", GitPrints(res))
    /\ UNCHANGED <<args, env, current_branch, head, local, remote, files,
                   prCalls, report, merged_branches, idx>>

SyncPull ==
    /\ pc = "sy_pull"
    /\ \E res \in Outcomes("pull", SyncBranch) :
          /\ trace' = Append(trace, Entry("pull", SyncBranch, res))
          /\ IF BareExceptCatches(RunGitCommand(res))
             THEN Continue("sy_push",
                           GitPrints(res) \o <<"remote_branch_missing">>)
             ELSE Terminate("none", GitPrints(res) \o <<"synced">>)
    /\ UNCHANGED <<args, env, current_branch, head, local, remote, files,
                   prCalls, report, merged_branches, idx>>

SyncPush ==
    /\ pc = "sy_push"
    /\ Fatal("push-u", SyncBranch, "exited", <<"remote_branch_created">>)
    /\ UNCHANGED <<args, env, current_branch, files, prCalls, report,
                   merged_branches, idx>>

----------------------------------------------------------------------------
(* main *)

Dispatch ==
    /\ pc = "main"
    /\ CASE args.command = "none" ->
              Terminate("none", <<"help">>)
         [] args.command = "feature" /\ args.feature_action = "start" ->
              Continue("cf_checkout", <<>>)
         [] args.command = "feature" /\ args.feature_action = "finish" ->
              Continue("ff_checkout", <<>>)
         [] args.command = "feature"
              /\ args.feature_action \notin {"start", "finish"} ->
              Terminate("none", <<>>)
         [] args.command = "hotfix"  -> Continue("ch_checkout", <<>>)
         [] args.command = "release" -> Continue("cr_validate", <<>>)
         [] args.command = "cleanup" -> Continue("cl_list", <<>>)
         [] args.command = "health"  -> Continue("h_status", <<>>)
         [] args.command = "sync"    -> Continue("sy_fetch", <<>>)
    /\ UNCHANGED <<args, env, current_branch, head, local, remote, files,
                   trace, prCalls, report, merged_branches, idx>>

----------------------------------------------------------------------------
(* Initial states: the parsed arguments, the repository and the automator   *)
(* built by main (current_branch read by _get_current_branch, 'main' when   *)
(* that command fails).                                                     *)

NoArgs ==
    [command |-> "none", feature_action |-> "none", name |-> None,
     base |-> main, target |-> main, version |-> None,
     no_dry_run |-> FALSE, branch |-> None, repository |-> None]

NoEnv ==
    [dirty |-> FALSE, unpushed |-> 0, days |-> 0, tracked |-> <<>>,
     merged |-> {main}, files0 |-> <<>>]

FeatureNames == {<<"a">>, <<"x", "1">>}
RepositoryNames == {None, <<"r", "e", "p", "o">>}
VersionAlphabet == {"1", ".", "\n"}
VersionExamples ==
    { <<"1", ".", "2", ".", "3">>,
      <<"1", ".", "2">>,
      <<"v", "1", ".", "2", ".", "3">>,
      <<"1", ".", "2", ".", "3", "-", "b", "e", "t", "a">>,
      <<"1", "0", ".", "0", ".", "2", "1">> }
Versions ==
    VersionExamples \cup
    UNION {[1..n -> VersionAlphabet] : n \in 0..MaxVerLen}

PackageJson(valid) ==
    [valid |-> valid, name |-> "app", version |-> <<"0", ".", "0", ".", "1">>]

InitialFiles(present, valid) ==
    [f \in present |->
        IF f = "package.json" THEN PackageJson(valid)
        ELSE <<"0", ".", "0", ".", "1", "\n">>]

FileSizes == {1, LargeFileThreshold, LargeFileThreshold + 1}
TrackedFiles ==
    UNION {[1..n -> [path : {"f"}, size : FileSizes]] : n \in 0..MaxFiles}

CleanupBranches == {featA, hotB, maintenance}

InitCommon ==
    /\ pc = "main"
    /\ trace = <<>>
    /\ prCalls = <<>>
    /\ out = <<>>
    /\ exitStatus = "running"
    /\ report = NewReport
    /\ merged_branches = <<>>
    /\ idx = 1

InitNoCommand ==
    /\ args = NoArgs
    /\ env = NoEnv
    /\ local = {main} /\ remote = {main} /\ head = main
    /\ current_branch = head
    /\ files = <<>>

InitStartBranch ==
    /\ \E c \in {"feature", "hotfix"}, n \in FeatureNames, b \in {main, dev},
          a \in {"start", "none"} :
          /\ c = "hotfix" => a = "none"
          /\ args = [NoArgs EXCEPT !.command = c, !.name = n, !.base = b,
                                   !.feature_action = a]
          /\ local \in {{main}, {main, dev},
                        {main, dev, FeatureBranchName(n), HotfixBranchName(n)}}
    /\ remote \in {{main}, {main, dev}}
    /\ head \in local
    /\ current_branch = head
    /\ env = NoEnv
    /\ files = <<>>

InitFinishFeature ==
    /\ \E n \in FeatureNames, r \in RepositoryNames, t \in {main, dev} :
          /\ args = [NoArgs EXCEPT !.command = "feature",
                                   !.feature_action = "finish",
                                   !.name = n, !.target = t,
                                   !.repository = r]
          /\ local \in {{main}, {main, FeatureBranchName(n)}}
    /\ remote \in {{main}, local}
    /\ head \in local
    /\ current_branch = head
    /\ env = NoEnv
    /\ files = <<>>

InitRelease ==
    /\ \E v \in Versions :
          args = [NoArgs EXCEPT !.command = "release", !.version = v]
    /\ local = {main} /\ remote = {main} /\ head = main
    /\ current_branch = head
    /\ \E present \in SUBSET VersionFiles, valid \in BOOLEAN, d \in BOOLEAN :
          /\ ("package.json" \notin present) => valid
          /\ files = InitialFiles(present, valid)
          /\ env = [NoEnv EXCEPT !.files0 = files, !.dirty = d]

InitCleanup ==
    /\ \E nd \in BOOLEAN :
          args = [NoArgs EXCEPT !.command = "cleanup", !.no_dry_run = nd]
    /\ \E l \in SUBSET CleanupBranches : local = l \cup {main}
    /\ \E r \in SUBSET CleanupBranches : remote = r \cup {main}
    /\ head \in local
    /\ current_branch = head
    /\ \E m \in SUBSET local :
          /\ main \in m
          /\ env = [NoEnv EXCEPT !.merged = m]
    /\ files = <<>>

InitHealth ==
    /\ args = [NoArgs EXCEPT !.command = "health"]
    /\ local = {main} /\ remote = {main} /\ head = main
    /\ current_branch = head
    /\ \E d \in BOOLEAN, u \in 0..MaxUnpushed, age \in {0, 31},
          t \in TrackedFiles :
          env = [NoEnv EXCEPT !.dirty = d, !.unpushed = u, !.days = age,
                              !.tracked = t]
    /\ files = <<>>

InitSync ==
    /\ \E b \in {None, main, dev} :
          args = [NoArgs EXCEPT !.command = "sync", !.branch = b]
    /\ local \in {{main}, {main, dev}}
    /\ remote \in SUBSET {main, dev}
    /\ head \in local
    /\ current_branch \in {head, main}
    /\ env = NoEnv
    /\ files = <<>>

Init ==
    /\ InitCommon
    /\ \/ InitNoCommand
       \/ InitStartBranch
       \/ InitFinishFeature
       \/ InitRelease
       \/ InitCleanup
       \/ InitHealth
       \/ InitSync

Next ==
    \/ Dispatch
    \/ CreateFeatureCheckout
    \/ CreateFeaturePull
    \/ CreateFeatureCreate
    \/ CreateFeaturePush
    \/ CreateHotfixCheckout
    \/ CreateHotfixPull
    \/ CreateHotfixCreate
    \/ CreateHotfixPush
    \/ FinishFeatureCheckout
    \/ FinishFeaturePush
    \/ CreatePullRequest
    \/ ReleaseValidate
    \/ ReleaseCheckout
    \/ ReleasePull
    \/ ReleaseCreate
    \/ ReleaseAdd
    \/ ReleaseCommit
    \/ ReleasePush
    \/ CleanList
    \/ CleanLocal
    \/ CleanRemote
    \/ HealthStatus
    \/ HealthUnpushed
    \/ HealthBranchAge
    \/ HealthLargeFiles
    \/ SyncFetch
    \/ SyncRevParse
    \/ SyncPull
    \/ SyncPush

Spec == Init /\ [][Next]_vars

TypeOK ==
    /\ pc \in {"main", "exited", "cf_checkout", "cf_pull", "cf_create",
               "cf_push", "ch_checkout", "ch_pull", "ch_create", "ch_push",
               "ff_checkout", "ff_push", "ff_pr", "cr_validate",
               "cr_checkout", "cr_pull", "cr_create", "cr_add", "cr_commit",
               "cr_push", "cl_list", "cl_local", "cl_remote", "h_status",
               "h_log", "h_show", "h_ls", "sy_fetch", "sy_revparse",
               "sy_pull", "sy_push"}
    /\ exitStatus \in {"running", "zero", "nonzero"}
    /\ (pc = "exited") <=> (exitStatus # "running")
    /\ head \in local

----------------------------------------------------------------------------
(* Properties *)

Printed(m) == \E i \in 1..Len(out) : out[i] = m

Issued(op) == {i \in 1..Len(trace) : trace[i].op = op}

AllSucceeded == \A i \in 1..Len(trace) : trace[i].res = "ok"

NoInterrupt == \A i \in 1..Len(trace) : trace[i].res # "int"

IsHealth == args.command = "health"
IsCleanup == args.command = "cleanup"
IsSync == args.command = "sync"
IsRelease == args.command = "release"
IsHotfix == args.command = "hotfix"
IsFeatureStart == args.command = "feature" /\ args.feature_action = "start"
IsFeatureFinish == args.command = "feature" /\ args.feature_action = "finish"

HasLargeFile ==
    \E i \in 1..Len(env.tracked) : env.tracked[i].size > 10485760

(* C1: when every signal of the health check is gathered, the reported      *)
(* status is 'warning' if and only if there are uncommitted changes, or     *)
(* unpushed commits, or a tracked file larger than 10 MB; otherwise it is   *)
(* 'healthy'.                                                               *)
C1_StatusWarningIffSignal ==
    (IsHealth /\ pc = "exited" /\ Len(trace) = 4 /\ AllSucceeded) =>
        /\ report.status \in {"healthy", "warning"}
        /\ (report.status = "warning") <=>
               (env.dirty \/ env.unpushed > 0 \/ HasLargeFile)

(* C2: cleanup without --no-dry-run never issues 'git branch -d' nor        *)
(* 'git push origin --delete'.                                              *)
C2_DryRunIssuesNoDeletion ==
    (IsCleanup /\ ~args.no_dry_run) =>
        \A i \in 1..Len(trace) : trace[i].op \notin {"branch-d", "push-delete"}

C2_Witness ==
    /\ IsCleanup /\ ~args.no_dry_run
    /\ pc = "exited"
    /\ Len(merged_branches) >= 2
    /\ Printed("dry_run")

(* C3: cleanup with dry-run disabled attempts the local and the remote      *)
(* deletion of exactly the merged branches other than main and the          *)
(* checked-out branch, whatever deletions failed, and exits with status 0.  *)
C3_DeletesEveryMergedBranch ==
    (IsCleanup /\ args.no_dry_run /\ pc = "exited"
        /\ trace # <<>> /\ trace[1].res = "ok") =>
        /\ {trace[i].arg : i \in Issued("branch-d")} = env.merged \ {main, head}
        /\ {trace[i].arg : i \in Issued("push-delete")} =
               env.merged \ {main, head}
        /\ exitStatus = "zero"

ThreeDigitGroups(v) ==
    LET groups == SplitOn(v, ".")
    IN  Len(groups) = 3 /\ \A i \in 1..3 : AllDigits(groups[i])

(* C4: a version that is not three dot-separated groups of decimal digits   *)
(* is rejected with the validation error, no git command is issued and no   *)
(* version file is rewritten; 1.2.3 is accepted.                            *)
C4_InvalidVersionRejected ==
    IsRelease =>
        /\ ~ThreeDigitGroups(args.version) =>
              /\ trace = <<>>
              /\ files = env.files0
              /\ pc = "exited" => Printed("version_format_error")
        /\ ThreeDigitGroups(args.version) => ~Printed("version_format_error")

(* C5: in runs without interruption, sync never issues 'push -u' for a      *)
(* branch that exists on the remote and never issues 'pull' for a branch    *)
(* that does not.                                                           *)
C5_PullIffRemoteExists ==
    [][(IsSync /\ NoInterrupt') =>
          \A i \in (Len(trace) + 1)..Len(trace') :
             /\ trace'[i].op = "push-u" => trace'[i].arg \notin remote
             /\ trace'[i].op = "pull" => trace'[i].arg \in remote]_vars

(* C6: finish_feature makes no create-pull-request call without a           *)
(* repository name and prints the manual instruction instead; with a        *)
(* repository name and a successful checkout and push it makes exactly one  *)
(* call whose title contains the feature name; a call is never made before  *)
(* the push of the feature branch has succeeded.                            *)
C6_PullRequestOnlyWithRepository ==
    LET branch == <<"f", "e", "a", "t", "u", "r", "e", "/">> \o args.name
        pushed == \E j \in 1..Len(trace) :
                      trace[j] = Entry("push", branch, "ok")
    IN  IsFeatureFinish =>
          /\ args.repository = <<>> =>
                /\ Issued("create_pull_request") = {}
                /\ prCalls = <<>>
                /\ (pc = "exited" /\ pushed) =>
                      Printed("create_pull_request_manually")
          /\ (args.repository # <<>> /\ pc = "exited" /\ pushed) =>
                /\ Cardinality(Issued("create_pull_request")) = 1
                /\ Len(prCalls) = 1
                /\ Contains(prCalls[1].title, args.name)
                /\ ~Printed("create_pull_request_manually")
          /\ \A i \in Issued("create_pull_request") :
                \E j \in 1..(i - 1) : trace[j] = Entry("push", branch, "ok")

C6_Witness ==
    /\ IsFeatureFinish
    /\ args.repository # <<>>
    /\ pc = "exited"
    /\ Len(prCalls) = 1
    /\ Printed("pull_request_created")

(* C7: when create_feature_branch (create_hotfix_branch) completes without  *)
(* a command failure, the checked-out branch is feature/<name>              *)
(* (hotfix/<name>) and that branch exists on the remote.                    *)
C7_BranchCheckedOutAndPushed ==
    LET completed == pc = "exited" /\ Len(trace) = 4 /\ AllSucceeded
        feature == <<"f", "e", "a", "t", "u", "r", "e", "/">> \o args.name
        hotfix == <<"h", "o", "t", "f", "i", "x", "/">> \o args.name
    IN  /\ (IsFeatureStart /\ completed) =>
              head = feature /\ feature \in remote /\ exitStatus = "zero"
        /\ (IsHotfix /\ completed) =>
              head = hotfix /\ hotfix \in remote /\ exitStatus = "zero"

C7_Witness ==
    /\ IsFeatureStart
    /\ args.base = dev
    /\ pc = "exited" /\ Len(trace) = 4 /\ AllSucceeded
    /\ Printed("feature_branch_created")

(* C8: in the start-feature, hotfix, finish-feature and release flows a     *)
(* failed git command is the last call the operation makes, and the         *)
(* process exits with a non-zero status.                                    *)
C8_FailureAborts ==
    (IsFeatureStart \/ IsFeatureFinish \/ IsHotfix \/ IsRelease) =>
        \A i \in 1..Len(trace) :
           trace[i].res = "fail" =>
              /\ i = Len(trace)
              /\ pc = "exited"
              /\ exitStatus = "nonzero"
              /\ Printed("git_command_failed")

C8_Witness ==
    /\ IsRelease
    /\ Len(trace) = 5
    /\ trace[5] = Entry("commit", args.version, "fail")
    /\ exitStatus = "nonzero"

(* C9: without interruption, the health check always ends with a printed    *)
(* report after attempting all four signal commands, whichever of them      *)
(* failed.                                                                  *)
C9_HealthAlwaysReports ==
    (IsHealth /\ pc = "exited" /\ NoInterrupt) =>
        /\ Printed("report")
        /\ Len(trace) = 4
        /\ exitStatus = "zero"

(* C10: an interruption ends the tool: the interrupted call is the last     *)
(* one issued and the cancellation notice is printed.                       *)
C10_InterruptTerminates ==
    \A i \in 1..Len(trace) :
       trace[i].res = "int" =>
          /\ i = Len(trace)
          /\ pc = "exited"
          /\ Printed("cancelled")

====
